---- MODULE Spec2Model ----
(***************************************************************************)
(* Session orchestrators runDroid / runOpencode of happy-cli, together     *)
(* with the two agent backends they drive (DroidBackend over DroidClient,  *)
(* OpencodeBackend over OpencodeClient).                                   *)
(*                                                                         *)
(* One step of the model is one JavaScript macrotask: a transport callback *)
(* (user message, abort RPC, kill RPC, Ctrl-C), a child-process event      *)
(* (stdout data, close, error) or the resumption of the dispatch loop.     *)
(* Everything a callback runs synchronously, promise continuations         *)
(* included, belongs to the same step.                                     *)
(***************************************************************************)
EXTENDS Integers, Sequences, FiniteSets, TLC

\* ---------------------------------------------------------------- bounds
MaxMsgs == 2      \* user messages delivered by the transport
MaxAborts == 1    \* abort requests (abort RPC, Ctrl-C, kill RPC)
MaxEvents == 1    \* stdout records of one droid subprocess
MaxStreamEvents == 2   \* server events read from one event subscription
MaxCalls == 2     \* direct calls of cancel(), and of dispose(), on one backend
MaxHandlers == 3  \* handlers registered with onMessage
MaxFanoutEvents == 2   \* backend events emitted to those handlers
MaxLines == 2     \* newline-terminated lines of one subprocess's stdout

\* ------------------------------------------------------- values and texts
Undef == "undefined"
Null == "null"
Empty == <<>>

DEFAULT_DROID_MODEL == "claude-sonnet-4-5-20250929"
DEFAULT_OPENCODE_MODEL == "anthropic/claude-3-5-sonnet-20241022"

validModes == {"default", "read-only", "safe-yolo", "yolo"}

\* JavaScript String.prototype.trim() applied to a text, as a truth value:
\* the trimmed text is non-empty iff some character is not white space.
TrimNonEmpty(s) == \E i \in 1..Len(s) : s[i] # " "

permissionModeToAutoLevel(mode) ==
    CASE mode = "default" -> Undef
      [] mode = "read-only" -> Undef
      [] mode = "safe-yolo" -> "low"
      [] mode = "yolo" -> "high"
      [] OTHER -> Undef

\* ------------------------------------------------------------ the queue
\* MessageQueue2: push appends one item, the wait hands out the oldest
\* item, reset discards every pending item, size is the pending length.
QueuePush(q, item) == Append(q, item)
QueueReset(q) == <<>>
QueueSize(q) == Len(q)
QueueNextNewest(q) == q[Len(q)]
QueueNext(q) == Head(q)
QueueRest(q) == Tail(q)

VARIABLES
    kind,                   \* "droid" (runDroid) or "opencode" (runOpencode)
    pc,                     \* position of the orchestrator's main function
    messageQueue,
    currentPermissionMode, currentModel,
    thinking, shouldExit, isResponseInProgress, accumulatedResponse,
    backend,                \* fields of DroidBackend / OpencodeBackend and its client
    proc,                   \* the droid subprocess of the invocation in flight
    sent,                   \* messages handed to the transport since the turn began
    emitted,                \* kinds of the AgentMessages delivered since sendPrompt began
    turn,                   \* "none", "open" (sendPrompt pending) or "closed"
    inFlight,               \* sendPrompt calls that have not settled
    invoked,                \* the latest sendPrompt call: its queue item and arguments
    invokedIds,             \* ids of the prompts passed to sendPrompt so far
    discarded,              \* ids of the prompts dropped by a queue reset
    cancelled,              \* cancel() hit the invocation of the current turn
    turnAborted,            \* turn_aborted messages sent so far
    nextId, nAborts,
    stream,                 \* OpencodeClient's connection to the opencode server
    api,                    \* direct calls of cancel() / dispose() on the backend
    reader,                 \* DroidClient.execStream read byte by byte
    fanout,                 \* handlers registered with onMessage and what they received
    probe                   \* DroidClient.isAvailable() / getVersion() calls

vars == <<kind, pc, messageQueue, currentPermissionMode, currentModel,
          thinking, shouldExit, isResponseInProgress, accumulatedResponse,
          backend, proc, sent, emitted, turn, inFlight, invoked, invokedIds,
          discarded, cancelled, turnAborted, nextId, nAborts, stream,
          api, reader, fanout, probe>>

\* ------------------------------------------------------- message shapes
\* AgentMessage handed to the registered handlers.  An absent text field is
\* the empty text: the handlers only test these fields for truthiness.
Msg(t, st, delta, full, det) ==
    [type |-> t, status |-> st, textDelta |-> delta, fullText |-> full, detail |-> det]
StatusMsg(st, det) == Msg("status", st, Empty, Empty, det)
ModelOutput(delta, full) == Msg("model-output", "", delta, full, Empty)
OtherMsg(t) == Msg(t, "", Empty, Empty, Empty)

\* Message handed to the transport (sendCodexMessage / sendSessionEvent).
Out(t, isErr, txt) == [type |-> t, error |-> isErr, text |-> txt]

\* The part of the orchestrator's state its onMessage handler reads or writes.
Orch ==
    [thinking |-> thinking,
     isResponseInProgress |-> isResponseInProgress,
     accumulatedResponse |-> accumulatedResponse,
     sent |-> sent,
     emitted |-> emitted,
     turnAborted |-> turnAborted]

\* ------------------------------------------------- orchestrator handlers
onModelOutputFullText(o, msg) ==
    IF msg.textDelta # Empty \/ msg.fullText # Empty
    THEN [o EXCEPT !.isResponseInProgress = TRUE,
                   !.accumulatedResponse =
                       @ \o (IF msg.fullText # Empty THEN msg.fullText ELSE msg.textDelta)]
    ELSE o

\* case 'model-output' of the handler passed to backend.onMessage
onModelOutput(o, msg) ==
    IF msg.textDelta # Empty \/ msg.fullText # Empty
    THEN [o EXCEPT !.isResponseInProgress = TRUE,
                   !.accumulatedResponse = @ \o msg.textDelta]
    ELSE o

\* status 'idle' / 'stopped': flush the accumulated response, if any
onStatusIdle(o) ==
    LET o1 == [o EXCEPT !.thinking = FALSE] IN
    IF o1.isResponseInProgress /\ TrimNonEmpty(o1.accumulatedResponse)
    THEN [o1 EXCEPT !.sent = @ \o <<Out("message", FALSE, o1.accumulatedResponse),
                                     Out("task_complete", FALSE, Empty)>>,
                    !.accumulatedResponse = Empty,
                    !.isResponseInProgress = FALSE]
    ELSE o1

\* status 'error': acknowledge the aborted turn and surface the error text
onStatusError(o, msg) ==
    [o EXCEPT !.thinking = FALSE,
              !.sent = @ \o <<Out("turn_aborted", FALSE, Empty),
                               Out("message", TRUE,
                                   IF msg.detail # Empty THEN msg.detail
                                   ELSE <<"Unknown error">>)>>,
              !.turnAborted = @ + 1,
              !.accumulatedResponse = Empty,
              !.isResponseInProgress = FALSE]

onStatus(o, msg) ==
    CASE msg.status = "running" ->
            [o EXCEPT !.thinking = TRUE,
                      !.sent = Append(@, Out("task_started", FALSE, Empty))]
      [] msg.status \in {"idle", "stopped"} -> onStatusIdle(o)
      [] msg.status = "error" -> onStatusError(o, msg)
      [] OTHER -> o

\* The handler registered with droidBackend.onMessage / opencodeBackend.onMessage.
\* Tool, file-edit and terminal messages only touch the local message buffer.
onMessage(o, msg) ==
    CASE msg.type = "model-output" -> onModelOutput(o, msg)
      [] msg.type = "status" -> onStatus(o, msg)
      [] OTHER -> o

\* What the log of emitted messages keeps of a message: the status of a status
\* message, "content" for every other message; a run of content messages is
\* one entry.
EmittedKind(msg) == IF msg.type = "status" THEN msg.status ELSE "content"
Record(log, k) ==
    IF k = "content" /\ log # <<>> /\ log[Len(log)] = "content" THEN log
    ELSE Append(log, k)

\* DroidBackend.emit / OpencodeBackend.emit: every registered handler gets the
\* message; the orchestrator's handler is the only one either program registers.
emit(o, msg, handlers) ==
    IF handlers
    THEN [onMessage(o, msg) EXCEPT !.emitted = Record(o.emitted, EmittedKind(msg))]
    ELSE o

RECURSIVE emitAll(_, _, _)
emitAll(o, msgs, handlers) ==
    IF msgs = <<>> THEN o
    ELSE emitAll(emit(o, Head(msgs), handlers), Tail(msgs), handlers)

emitReadyNoProgressCheck(o, exiting, q) ==
    IF exiting THEN o
    ELSE IF o.thinking THEN o
    ELSE IF QueueSize(q) > 0 THEN o
    ELSE [o EXCEPT !.sent = Append(@, [type |-> "ready", error |-> FALSE, text |-> <<>>])]

emitReadyNoQueueCheck(o, exiting, q) ==
    IF exiting THEN o
    ELSE IF o.thinking THEN o
    ELSE IF o.isResponseInProgress THEN o
    ELSE [o EXCEPT !.sent = Append(@, [type |-> "ready", error |-> FALSE, text |-> <<>>])]

\* sendReady / emitReadyIfIdle, evaluated on the state the caller has reached
emitReadyIfIdle(o, exiting, q) ==
    IF exiting THEN o
    ELSE IF o.thinking THEN o
    ELSE IF o.isResponseInProgress THEN o
    ELSE IF QueueSize(q) > 0 THEN o
    ELSE [o EXCEPT !.sent = Append(@, Out("ready", FALSE, Empty))]

\* ------------------------------------------------------- droid backend
\* Records of the subprocess's stream-json output (DroidStreamEvent).
StreamEvent(t, role, txt, tool, sid) ==
    [type |-> t, role |-> role, text |-> txt, toolId |-> tool, session_id |-> sid]

StreamEvents ==
    {StreamEvent("system", "", Empty, "", "s1")}
    \cup {StreamEvent("message", "assistant", t, "", "s1") : t \in {<<"x">>, <<" ">>}}
    \cup {StreamEvent("message", "user", <<"x">>, "", "s1")}
    \cup {StreamEvent("tool_call", "", Empty, "Execute", "s1")}
    \cup {StreamEvent("tool_result", "", Empty, t, "s1") : t \in {"Write", "Execute"}}
    \cup {StreamEvent("completion", "", t, "", "s1") : t \in {Empty, <<"x">>}}

handleStreamEventUsageFirst(event) ==
    IF event.type = "completion"
    THEN <<OtherMsg("token-count")>>
         \o (IF event.text # Empty THEN <<ModelOutput(Empty, event.text)>> ELSE <<>>)
    ELSE IF event.type = "message" /\ event.role = "assistant"
    THEN <<ModelOutput(event.text, event.text)>>
    ELSE IF event.type = "tool_result" THEN <<OtherMsg("tool-result")>>
    ELSE IF event.type = "tool_call" THEN <<OtherMsg("tool-call")>>
    ELSE <<OtherMsg("event")>>

\* DroidBackend.handleStreamEvent: the AgentMessages one record is translated to
handleStreamEvent(event) ==
    CASE event.type = "system" -> <<OtherMsg("event")>>
      [] event.type = "message" ->
            IF event.role = "assistant"
            THEN <<ModelOutput(event.text, event.text)>>
            ELSE <<>>
      [] event.type = "tool_call" -> <<OtherMsg("tool-call")>>
      [] event.type = "tool_result" ->
            <<OtherMsg("tool-result")>>
            \o (IF event.toolId \in {"Write", "Edit", "ApplyPatch", "MultiEdit"}
                THEN <<OtherMsg("fs-edit")>> ELSE <<>>)
            \o (IF event.toolId = "Execute"
                THEN <<OtherMsg("terminal-output")>> ELSE <<>>)
      [] event.type = "completion" ->
            (IF event.text # Empty THEN <<ModelOutput(Empty, event.text)>> ELSE <<>>)
            \o <<OtherMsg("token-count")>>
      [] OTHER -> <<>>

\* case 'system' of handleStreamEvent keeps the session id for continuation
sessionIdAfter(current, event) ==
    IF event.type = "system" THEN event.session_id ELSE current

\* new DroidBackend(options) / new OpencodeBackend(options)
NewBackend(k, model, mode) ==
    [constructed |-> TRUE,
     permissionMode |-> mode,
     auto |-> IF k = "droid" THEN permissionModeToAutoLevel(mode) ELSE Undef,
     model |-> model,
     initialModel |-> model,   \* the model the backend was constructed with
     droidSessionId |-> Null,
     opencodeSessionId |-> Null,
     isRunning |-> FALSE,
     currentProcess |-> FALSE,
     messageHandlers |-> TRUE,
     eventSubscriptionActive |-> FALSE]

\* Before `const droidBackend = new DroidBackend(...)` has run the binding is
\* uninitialised: every use of it throws a ReferenceError.
NoBackend == [NewBackend("droid", Undef, "default") EXCEPT
                 !.constructed = FALSE, !.messageHandlers = FALSE]

\* DroidBackend.setPermissionMode / OpencodeBackend.setPermissionMode
setPermissionMode(b, mode) ==
    IF kind = "droid"
    THEN [b EXCEPT !.permissionMode = mode, !.auto = permissionModeToAutoLevel(mode)]
    ELSE [b EXCEPT !.permissionMode = mode]

\* DroidBackend.setModel -> DroidClient.setDefaultModel; OpencodeClient.setModel
setModel(b, model) == [b EXCEPT !.model = model]

\* DroidBackend.dispose / OpencodeBackend.dispose
dispose(b) ==
    [b EXCEPT !.currentProcess = FALSE,
              !.messageHandlers = FALSE,
              !.droidSessionId = Null,
              !.opencodeSessionId = Null,
              !.eventSubscriptionActive = FALSE,
              !.isRunning = FALSE]

\* ------------------------------------------------------------ inputs
Absent == "absent"
\* message.meta of a user message, <<permissionMode, model>>: each absent or
\* present, the model possibly an explicit null
MetaInputs ==
    {<<Absent, Absent>>, <<"default", Absent>>, <<"yolo", Absent>>,
     <<Absent, Null>>, <<Absent, "m1">>, <<"yolo", "m1">>}
\* A user message: its meta and message.content.text.  A message may carry
\* only a change of mode and model, with no prompt text.
MessageInputs ==
    {<<m[1], m[2], <<"p">>>> : m \in MetaInputs} \cup {<<"yolo", "m1", Empty>>}
\* currentModel at start-up, no model configured in the environment:
\* process.env[DROID_MODEL_ENV] || undefined / determineOpencodeModel(...)
InitialModels(k) ==
    IF k = "droid" THEN {Undef} ELSE {DEFAULT_OPENCODE_MODEL}
\* exit status handed to the 'close' listener: 0, a failure code ("1" stands
\* for every non-zero code), or null when the child was ended by the signal
\* cancel() sent
ExitCodes == {"0", "1", Null}
StderrTexts == {Empty, <<"boom">>}

NoProc == [state |-> "none", events |-> 0]
\* No startSession call yet, no request in flight, no event read, no
\* permission response posted.
NoStream ==
    [startSession |-> "none", request |-> "none", events |-> 0, permissionResponses |-> 0,
     serverProcess |-> FALSE,      \* OpencodeClient.serverProcess is a live child
     abortController |-> FALSE,    \* OpencodeClient.abortController of a live subscription
     reading |-> FALSE]            \* the read loop of subscribeToEvents is running
\* No direct call of cancel() or dispose() made yet, no session-init record
\* read.  `lastInit` is the session id of the latest session-init record read
\* since the latest dispose() call; `disposedSince` says that dispose() was
\* called after the latest sendPrompt call started.
NoCalls == [cancels |-> 0, disposes |-> 0, lastCancel |-> FALSE,
            lastInit |-> Null, disposedSince |-> FALSE]

\* a record has been handed to onEvent: what the caller has seen of session ids
noteRecord(a, event) ==
    IF event.type = "system" THEN [a EXCEPT !.lastInit = event.session_id] ELSE a
\* No execStream call read at byte level.
NoReader == [state |-> "none"]
\* messageHandlers = [] and nothing emitted.
NoHandlers == [handlers |-> <<>>, log |-> <<>>, lastCalled |-> <<>>, events |-> 0]
\* Neither isAvailable() nor getVersion() called.  Each call has its promise
\* (settled or not, and its value), its `droid --version` child and, for
\* isAvailable, the five-second timer.
NoProbes ==
    [isAvailable |-> [called |-> FALSE, settled |-> FALSE, value |-> FALSE,
                      child |-> "none", timer |-> FALSE],
     getVersion |-> [called |-> FALSE, settled |-> FALSE, isNull |-> FALSE,
                     value |-> Empty, child |-> "none", stdout |-> Empty]]
NoInvocation ==
    [id |-> 0, permissionMode |-> "default", model |-> Undef,
     backendMode |-> "default", auto |-> Undef,
     execModel |-> Undef, sessionId |-> Null, during |-> FALSE, aEnded |-> FALSE,
     readyGap |-> FALSE, afterExit |-> FALSE, failed |-> FALSE, prompt |-> Empty]

Init ==
    /\ kind \in {"droid", "opencode"}
    /\ pc = "startup"
    /\ messageQueue = <<>>
    /\ currentPermissionMode = "default"
    /\ currentModel \in InitialModels(kind)
    /\ thinking = FALSE
    /\ shouldExit = FALSE
    /\ isResponseInProgress = FALSE
    /\ accumulatedResponse = Empty
    /\ backend = NoBackend
    /\ proc = NoProc
    /\ sent = <<>>
    /\ emitted = <<>>
    /\ turn = "none"
    /\ inFlight = 0
    /\ invoked = NoInvocation
    /\ invokedIds = {}
    /\ discarded = {}
    /\ cancelled = FALSE
    /\ turnAborted = 0
    /\ nextId = 1
    /\ nAborts = 0
    /\ stream = NoStream
    /\ api = NoCalls
    /\ reader = NoReader
    /\ fanout = NoHandlers
    /\ probe = NoProbes

Running == pc \in {"startup", "wait", "invoking"}

\* The handler's share of the state, written back from a record.
SetOrch(o) ==
    /\ thinking' = o.thinking
    /\ isResponseInProgress' = o.isResponseInProgress
    /\ accumulatedResponse' = o.accumulatedResponse
    /\ sent' = o.sent
    /\ emitted' = o.emitted
    /\ turnAborted' = o.turnAborted

\* The options object of sendPrompt and the argv handed to spawn are built
\* once, from the values the backend's fields had at that moment; a later
\* write to the fields of backend `b` does not reach the invocation `inv`.
spawnedArgsLive(inv, b) ==
    [inv EXCEPT !.auto = b.auto, !.execModel = b.model, !.backendMode = b.permissionMode]

spawnedArgs(inv, b) == inv

\* ------------------------------------------------- session.onUserMessage
\* The callback is registered before the backend is constructed; until then
\* the setPermissionMode / setModel calls throw and the message is not pushed.
QueueItem(id, mode, model, text) ==
    [id |-> id, permissionMode |-> mode, model |-> model, text |-> text,
     during |-> inFlight > 0, aEnded |-> FALSE, readyGap |-> FALSE]

UserMessage(metaMode, metaModel, text) ==
    LET validMode == metaMode \in validModes
        setsModel == metaModel \notin {Absent, Null}
        throwsAtMode == validMode /\ ~backend.constructed
        throwsAtModel == ~throwsAtMode /\ setsModel /\ ~backend.constructed
        messagePermissionMode == IF validMode THEN metaMode ELSE currentPermissionMode
        messageModel == CASE metaModel = Absent -> currentModel
                          [] metaModel = Null -> Undef
                          [] OTHER -> metaModel
        b1 == IF validMode THEN setPermissionMode(backend, metaMode) ELSE backend
        b2 == IF setsModel THEN setModel(b1, metaModel) ELSE b1
    IN
    /\ Running
    /\ nextId <= MaxMsgs
    /\ nextId' = nextId + 1
    /\ currentPermissionMode' = messagePermissionMode
    /\ currentModel' = IF throwsAtMode THEN currentModel ELSE messageModel
    /\ backend' = IF backend.constructed THEN b2 ELSE backend
    /\ messageQueue' =
          IF throwsAtMode \/ throwsAtModel THEN messageQueue
          ELSE QueuePush(messageQueue, QueueItem(nextId, messagePermissionMode, messageModel, text))
    /\ invoked' = IF backend.constructed THEN spawnedArgs(invoked, b2) ELSE invoked
    /\ UNCHANGED <<probe, api, reader, fanout, stream, kind, pc, thinking, shouldExit, isResponseInProgress,
                   accumulatedResponse, proc, sent, emitted, turn, inFlight,
                   invokedIds, discarded, cancelled, turnAborted, nAborts>>

\* ------------------------------------------------------------ abort
\* DroidClient.cancel: signal the live child and forget the handle
clientCancel(p) == IF p.state = "running" THEN [p EXCEPT !.state = "killed"] ELSE p

AbortQueueKept(q) == q

\* messageQueue.reset() in handleAbort
AbortQueue(q) == QueueReset(q)

\* handleAbort: acknowledge, reset the queue, cancel the backend.  A failure of
\* cancel (the backend binding not yet initialised) is caught and logged.
\* `final` is set when the caller goes on to dispose the backend.
AbortAckAfterCancel(o, b) ==
    IF b.constructed
    THEN [o EXCEPT !.sent = Append(@, [type |-> "turn_aborted", error |-> FALSE, text |-> <<>>]),
                   !.turnAborted = @ + 1]
    ELSE o

\* session.sendCodexMessage({type: 'turn_aborted'}): the first statement of
\* handleAbort, outside its try block, whatever the state of the backend `b`
AbortAck(o, b) ==
    [o EXCEPT !.sent = Append(@, Out("turn_aborted", FALSE, Empty)),
              !.turnAborted = @ + 1]

AbortEffect(final) ==
    LET o0 == AbortAck(Orch, backend)
        live == backend.currentProcess
        b1 == CASE ~backend.constructed -> backend
                [] kind = "droid" ->
                      IF live THEN [backend EXCEPT !.currentProcess = FALSE,
                                                   !.isRunning = FALSE]
                      ELSE backend
                [] OTHER -> [backend EXCEPT !.isRunning = FALSE]
        o1 == CASE ~backend.constructed -> o0
                [] kind = "droid" ->
                      IF live THEN emit(o0, StatusMsg("stopped", Empty), backend.messageHandlers)
                      ELSE o0
                [] OTHER -> emit(o0, StatusMsg("stopped", Empty), backend.messageHandlers)
    IN
    /\ nAborts < MaxAborts
    /\ nAborts' = nAborts + 1
    /\ discarded' = discarded \cup {messageQueue[i].id : i \in DOMAIN messageQueue}
    /\ messageQueue' = AbortQueue(messageQueue)
    /\ backend' = IF final THEN dispose(b1) ELSE b1
    /\ proc' = IF kind = "droid" /\ backend.constructed /\ live THEN clientCancel(proc) ELSE proc
    /\ cancelled' = (cancelled \/ (kind = "droid" /\ backend.constructed /\ live))
    /\ SetOrch(o1)

\* the 'abort' RPC handler
HandleAbort ==
    /\ Running
    /\ AbortEffect(FALSE)
    /\ UNCHANGED <<probe, api, reader, fanout, stream, kind, pc, currentPermissionMode, currentModel, shouldExit,
                   turn, inFlight, invoked, invokedIds, nextId>>

\* onExit of the display component (Ctrl-C)
OnExit ==
    /\ Running
    /\ shouldExit' = TRUE
    /\ AbortEffect(FALSE)
    /\ UNCHANGED <<probe, api, reader, fanout, stream, kind, pc, currentPermissionMode, currentModel,
                   turn, inFlight, invoked, invokedIds, nextId>>

\* handleKillSession: handleAbort, close the session, dispose the backend and
\* process.exit
KillSession ==
    /\ Running
    /\ AbortEffect(TRUE)
    /\ pc' = "exited"
    /\ UNCHANGED <<probe, api, reader, fanout, stream, kind, currentPermissionMode, currentModel, shouldExit,
                   turn, inFlight, invoked, invokedIds, nextId>>

\* ------------------------------------------------------ dispatch loop
DefaultModel(k) == IF k = "droid" THEN DEFAULT_DROID_MODEL ELSE DEFAULT_OPENCODE_MODEL

\* An invocation ended while these items were pending / a ready announcement
\* was sent while they were pending after that.
MarkEnded(q) ==
    [i \in DOMAIN q |-> IF q[i].during THEN [q[i] EXCEPT !.aEnded = TRUE] ELSE q[i]]
MarkReady(q) ==
    [i \in DOMAIN q |-> IF q[i].aEnded THEN [q[i] EXCEPT !.readyGap = TRUE] ELSE q[i]]

\* `while (!shouldExit)`: the next pass of the loop, or the cleanup after it
LoopTop(b) ==
    /\ pc' = IF shouldExit THEN "done" ELSE "wait"
    /\ backend' = IF shouldExit THEN dispose(b) ELSE b

\* end of one pass: `finally { emitReadyIfIdle() }`, then the loop condition
FinishIteration(o, b) ==
    LET q1 == MarkEnded(messageQueue)
        o2 == emitReadyIfIdle(o, shouldExit, q1)
    IN
    /\ SetOrch(o2)
    /\ messageQueue' = IF Len(o2.sent) > Len(o.sent) THEN MarkReady(q1) ELSE q1
    /\ turn' = "closed"
    /\ LoopTop(b)

\* startHappyServer resolved: construct the backend, register the handler,
\* send the initial ready signal and enter the loop
BackendConstructed ==
    LET b == NewBackend(kind,
                        IF currentModel = Undef THEN DefaultModel(kind) ELSE currentModel,
                        currentPermissionMode)
    IN
    /\ pc = "startup"
    /\ SetOrch(emitReadyIfIdle(Orch, shouldExit, messageQueue))
    /\ LoopTop(b)
    /\ UNCHANGED <<probe, api, reader, fanout, stream, kind, messageQueue, currentPermissionMode, currentModel, shouldExit,
                   proc, turn, inFlight, invoked, invokedIds, discarded, cancelled,
                   nextId, nAborts>>

\* The wait on the queue may come back without an item while the queue is empty.
WaitMayReturnEmpty(q) == QueueSize(q) = 0

\* `if (!item) { sleep 100 ms; continue; }`
WaitReturnsNull ==
    /\ pc = "wait"
    /\ WaitMayReturnEmpty(messageQueue)
    /\ LoopTop(backend)
    /\ UNCHANGED <<probe, api, reader, fanout, stream, kind, messageQueue, currentPermissionMode, currentModel,
                   thinking, shouldExit, isResponseInProgress, accumulatedResponse,
                   proc, sent, emitted, turn, inFlight, invoked, invokedIds, discarded,
                   cancelled, turnAborted, nextId, nAborts>>

CanDequeueWithoutAwait == pc \in {"wait", "invoking"} /\ Len(messageQueue) > 0

\* The loop asks the queue for the next item only after `await sendPrompt`
\* of the previous pass has settled.
CanDequeue == pc = "wait" /\ QueueSize(messageQueue) > 0

\* one sendPrompt call: the queue item it serves and the arguments it runs with
Invocation(item, b) ==
    [id |-> item.id, permissionMode |-> item.permissionMode, model |-> item.model,
     backendMode |-> b.permissionMode,
     auto |-> b.auto, execModel |-> b.model, sessionId |-> b.droidSessionId,
     during |-> item.during, aEnded |-> item.aEnded, readyGap |-> item.readyGap,
     afterExit |-> shouldExit, failed |-> FALSE, prompt |-> item.text]

\* the sendPrompt call in flight ended in a failure (rejected promise)
MarkFailed(inv) == [inv EXCEPT !.failed = TRUE]

\* the turn starts: accumulator reset, per-turn logs restarted
TurnStart ==
    [Orch EXCEPT !.accumulatedResponse = Empty, !.isResponseInProgress = FALSE,
                 !.sent = <<>>, !.emitted = <<>>]

\* runDroid: dequeue, reset the accumulator, DroidBackend.sendPrompt up to the
\* spawn in DroidClient.execStream
DispatchDroid ==
    LET item == QueueNext(messageQueue) IN
    /\ kind = "droid"
    /\ CanDequeue
    /\ messageQueue' = QueueRest(messageQueue)
    /\ SetOrch(emit(TurnStart, StatusMsg("running", Empty), backend.messageHandlers))
    /\ backend' = [backend EXCEPT !.isRunning = TRUE, !.currentProcess = TRUE]
    /\ proc' = [state |-> "running", events |-> 0]
    /\ invoked' = Invocation(item, backend)
    /\ invokedIds' = invokedIds \cup {item.id}
    /\ inFlight' = inFlight + 1
    /\ turn' = "open"
    /\ cancelled' = FALSE
    /\ pc' = "invoking"
    /\ api' = [api EXCEPT !.disposedSince = FALSE]
    /\ UNCHANGED <<probe, reader, fanout, stream, kind, currentPermissionMode, currentModel, shouldExit,
                   discarded, nextId, nAborts>>

\* runOpencode: dequeue, reset the accumulator, OpencodeBackend.sendPrompt.
\* startSession is never called, so opencodeSessionId is null and sendPrompt
\* throws 'No OpenCode session active' before it emits anything; the loop
\* catches, logs to the local buffer and runs its finally block.
DispatchOpencode ==
    LET item == QueueNext(messageQueue) IN
    /\ kind = "opencode"
    /\ CanDequeue
    /\ backend.opencodeSessionId = Null
    /\ invoked' = MarkFailed(Invocation(item, backend))
    /\ invokedIds' = invokedIds \cup {item.id}
    /\ cancelled' = FALSE
    /\ LET o == TurnStart
           q0 == QueueRest(messageQueue)
           q1 == MarkEnded(q0)
           o2 == emitReadyIfIdle(o, shouldExit, q1)
       IN /\ SetOrch(o2)
          /\ messageQueue' = IF Len(o2.sent) > Len(o.sent) THEN MarkReady(q1) ELSE q1
    /\ turn' = "closed"
    /\ LoopTop(backend)
    /\ UNCHANGED <<probe, api, reader, fanout, stream, kind, currentPermissionMode, currentModel, shouldExit, proc,
                   inFlight, discarded, nextId, nAborts>>

\* ------------------------------------------------ the droid subprocess
ProcLive == kind = "droid" /\ pc = "invoking" /\ proc.state \in {"running", "killed"}

\* stdout 'data' listener of execStream: one complete record
ProcStdout(event) ==
    /\ ProcLive
    /\ proc.events < MaxEvents
    /\ proc' = [proc EXCEPT !.events = @ + 1]
    /\ SetOrch(emitAll(Orch, handleStreamEvent(event), backend.messageHandlers))
    /\ backend' = [backend EXCEPT !.droidSessionId = sessionIdAfter(@, event)]
    /\ api' = noteRecord(api, event)
    /\ UNCHANGED <<probe, reader, fanout, stream, kind, pc, messageQueue, currentPermissionMode, currentModel,
                   shouldExit, turn, inFlight, invoked, invokedIds, discarded,
                   cancelled, nextId, nAborts>>

ExitDetailNoStderr(code, stderr) == <<"Droid stream exited with code", code, "Unknown error">>

\* Error text of the rejected execStream promise
ExitDetail(code, stderr) ==
    <<"Droid stream exited with code", code>>
    \o (IF stderr # Empty THEN stderr ELSE <<"Unknown error">>)

\* 'close' listener of execStream, then the rest of DroidBackend.sendPrompt and
\* of the loop pass.  `tail` is the unterminated last record, if it parses.
ProcClose(code, stderr, tail) ==
    LET o1 == IF tail = <<>> THEN Orch
              ELSE emitAll(Orch, handleStreamEvent(tail[1]), backend.messageHandlers)
        sid == IF tail = <<>> THEN backend.droidSessionId
               ELSE sessionIdAfter(backend.droidSessionId, tail[1])
        b1 == [backend EXCEPT !.currentProcess = FALSE, !.isRunning = FALSE,
                              !.droidSessionId = sid]
        o2 == IF code = "0"
              THEN emit(o1, StatusMsg("idle", Empty), backend.messageHandlers)
              ELSE emit(o1, StatusMsg("error", ExitDetail(code, stderr)),
                        backend.messageHandlers)
    IN
    /\ ProcLive
    /\ tail # <<>> => proc.events < MaxEvents
    /\ code = "0" => stderr = Empty
    /\ code = Null => proc.state = "killed"
    /\ code = "1" => proc.state = "running"
    /\ proc' = NoProc
    /\ inFlight' = inFlight - 1
    /\ invoked' = IF code = "0" THEN invoked ELSE MarkFailed(invoked)
    /\ FinishIteration(o2, b1)
    /\ api' = IF tail = <<>> THEN api ELSE noteRecord(api, tail[1])
    /\ UNCHANGED <<probe, reader, fanout, stream, kind, currentPermissionMode, currentModel, shouldExit,
                   invokedIds, discarded, cancelled, nextId, nAborts>>

\* 'error' listener of execStream: the child could not be spawned
ProcError ==
    LET b1 == [backend EXCEPT !.currentProcess = FALSE, !.isRunning = FALSE]
        o1 == emit(Orch, StatusMsg("error", <<"Failed to spawn droid">>),
                   backend.messageHandlers)
    IN
    /\ ProcLive
    /\ proc.events = 0
    /\ proc' = NoProc
    /\ inFlight' = inFlight - 1
    /\ invoked' = MarkFailed(invoked)
    /\ FinishIteration(o1, b1)
    /\ UNCHANGED <<probe, api, reader, fanout, stream, kind, currentPermissionMode, currentModel, shouldExit,
                   invokedIds, discarded, cancelled, nextId, nAborts>>

Tails == {<<>>} \cup {<<e>> : e \in StreamEvents}

\* ------------------------------------------- the server-stream backend
\* OpencodeBackend with a started session.  runOpencode never calls
\* startSession itself (see DispatchOpencode); the two StartSession steps stand
\* for a caller of the backend's public interface.

\* Records read from the server's event stream (OpencodeEvent)
OpencodeEvent(t, content, name, status) ==
    [type |-> t, content |-> content, name |-> name, status |-> status]

OpencodeEvents ==
    {OpencodeEvent("message.delta", <<"x">>, "", ""),
     OpencodeEvent("tool.called", Empty, "bash", ""),
     OpencodeEvent("tool.result", Empty, "bash", ""),
     OpencodeEvent("permission.requested", Empty, "", ""),
     OpencodeEvent("session.status", Empty, "", "idle"),
     OpencodeEvent("session.status", Empty, "", "error"),
     OpencodeEvent("error", Empty, "", "")}

\* The parts of the response to POST /session/:id/message (OpencodePart)
OpencodePart(t, text, name) == [type |-> t, text |-> text, toolName |-> name]

PartLists ==
    {<<>>,
     <<OpencodePart("text", <<"x">>, "")>>,
     <<OpencodePart("tool_result", Empty, "write")>>}

\* tool-result, then fs-edit for write/edit and terminal-output for bash
toolResultMessages(toolName) ==
    <<OtherMsg("tool-result")>>
    \o (IF toolName \in {"write", "edit"} THEN <<OtherMsg("fs-edit")>> ELSE <<>>)
    \o (IF toolName = "bash" THEN <<OtherMsg("terminal-output")>> ELSE <<>>)

\* OpencodeBackend.handleEvent: the AgentMessages one event is translated to
handleEvent(event) ==
    CASE event.type \in {"message.created", "message.updated", "message.delta"} ->
            IF event.content # Empty THEN <<ModelOutput(event.content, Empty)>> ELSE <<>>
      [] event.type \in {"tool.called", "tool.start"} -> <<OtherMsg("tool-call")>>
      [] event.type \in {"tool.result", "tool.end"} -> toolResultMessages(event.name)
      [] event.type \in {"permission.requested", "permission.required"} ->
            <<OtherMsg("permission-request")>>
      [] event.type = "session.status" ->
            CASE event.status = "running" -> <<StatusMsg("running", Empty)>>
              [] event.status \in {"idle", "completed"} -> <<StatusMsg("idle", Empty)>>
              [] event.status = "error" -> <<StatusMsg("error", Empty)>>
              [] OTHER -> <<>>
      [] event.type = "error" -> <<StatusMsg("error", <<"Unknown error">>)>>
      [] OTHER -> <<>>

\* isRunning as the session.status case of handleEvent leaves it
isRunningAfter(running, event) ==
    CASE event.type = "session.status" /\ event.status = "running" -> TRUE
      [] event.type = "session.status"
         /\ event.status \in {"idle", "completed", "error"} -> FALSE
      [] OTHER -> running

\* OpencodeBackend.processMessageResponse
RECURSIVE processMessageResponse(_)
processMessageResponse(parts) ==
    IF parts = <<>> THEN <<>>
    ELSE LET part == Head(parts)
             msgs == CASE part.type = "text" ->
                            IF part.text # Empty THEN <<ModelOutput(Empty, part.text)>>
                            ELSE <<>>
                       [] part.type = "tool_call" -> <<OtherMsg("tool-call")>>
                       [] part.type = "tool_result" -> toolResultMessages(part.toolName)
                       [] OTHER -> <<>>
         IN msgs \o processMessageResponse(Tail(parts))

\* the test of the handler's permission-request branch
AutoApproves(mode) == mode \in {"yolo", "safe-yolo"}

\* OpencodeBackend.respondToPermission: without a session it logs and returns,
\* with one it posts the decision through OpencodeClient.respondToPermission
respondToPermission(st, b) ==
    IF b.opencodeSessionId = Null THEN st
    ELSE [st EXCEPT !.permissionResponses = @ + 1]

\* case 'permission-request' of the handler registered by runOpencode: what
\* it sends to the transport
onPermissionRequest(o, mode) ==
    IF AutoApproves(mode) THEN o
    ELSE [o EXCEPT !.sent = Append(@, Out("permission-request", FALSE, Empty))]

\* startSession up to its second await: client.connect() has resolved and
\* startEventSubscription() has run; createSession is pending
StartSessionConnect ==
    /\ kind = "opencode"
    /\ pc \in {"wait", "invoking"}
    /\ backend.constructed
    /\ stream.startSession = "none"
    /\ stream' = [stream EXCEPT !.startSession = "creating",
                                !.serverProcess = TRUE, !.abortController = TRUE,
                                !.reading = TRUE]
    /\ backend' = [backend EXCEPT !.eventSubscriptionActive = TRUE]
    /\ UNCHANGED <<probe, api, reader, fanout, kind, pc, messageQueue, currentPermissionMode, currentModel,
                   thinking, shouldExit, isResponseInProgress, accumulatedResponse,
                   proc, sent, emitted, turn, inFlight, invoked, invokedIds,
                   discarded, cancelled, turnAborted, nextId, nAborts>>

\* createSession resolved: the session id is kept, 'starting' and (with no
\* initial prompt) 'idle' are emitted
StartSessionCreated ==
    /\ kind = "opencode"
    /\ pc \in {"wait", "invoking"}
    /\ stream.startSession = "creating"
    /\ stream' = [stream EXCEPT !.startSession = "done"]
    /\ backend' = [backend EXCEPT !.opencodeSessionId = "ses1"]
    /\ SetOrch(emit(emit(Orch, StatusMsg("starting", Empty), backend.messageHandlers),
                    StatusMsg("idle", Empty), backend.messageHandlers))
    /\ UNCHANGED <<probe, api, reader, fanout, kind, pc, messageQueue, currentPermissionMode, currentModel,
                   shouldExit, proc, turn, inFlight, invoked, invokedIds,
                   discarded, cancelled, nextId, nAborts>>

\* the callback startEventSubscription passes to subscribeToEvents: one event
\* read from the stream, handled by handleEvent and by the registered handler
SseEvent(event) ==
    LET msgs == handleEvent(event)
        o1 == emitAll(Orch, msgs, backend.messageHandlers)
        permission == /\ backend.messageHandlers
                      /\ \E i \in DOMAIN msgs : msgs[i].type = "permission-request"
        o2 == IF permission THEN onPermissionRequest(o1, currentPermissionMode) ELSE o1
        st == IF permission /\ AutoApproves(currentPermissionMode)
              THEN respondToPermission(stream, backend) ELSE stream
    IN
    /\ kind = "opencode"
    /\ pc \in {"wait", "invoking"}
    /\ backend.eventSubscriptionActive
    /\ stream.reading
    /\ stream.events < MaxStreamEvents
    /\ stream' = [st EXCEPT !.events = @ + 1]
    /\ backend' = [backend EXCEPT !.isRunning = isRunningAfter(@, event)]
    /\ SetOrch(o2)
    /\ UNCHANGED <<probe, api, reader, fanout, kind, pc, messageQueue, currentPermissionMode, currentModel,
                   shouldExit, proc, turn, inFlight, invoked, invokedIds,
                   discarded, cancelled, nextId, nAborts>>

\* the read loop of subscribeToEvents ends without an abort: the server closed
\* the stream (`done`, the promise resolves) or the read failed (the promise
\* rejects and the catch in startEventSubscription logs the error).  Nothing
\* is emitted and eventSubscriptionActive stays set.
SubscriptionEnd(failed) ==
    /\ kind = "opencode"
    /\ pc \in {"wait", "invoking"}
    /\ stream.reading
    /\ stream' = [stream EXCEPT !.reading = FALSE]
    /\ UNCHANGED <<probe, api, reader, fanout, kind, pc, messageQueue, currentPermissionMode, currentModel,
                   thinking, shouldExit, isResponseInProgress, accumulatedResponse,
                   backend, proc, sent, emitted, turn, inFlight, invoked, invokedIds,
                   discarded, cancelled, turnAborted, nextId, nAborts>>

\* runOpencode's loop with a session: dequeue, reset the accumulator,
\* OpencodeBackend.sendPrompt up to the fetch in OpencodeClient.sendPrompt
DispatchStream ==
    LET item == QueueNext(messageQueue) IN
    /\ kind = "opencode"
    /\ CanDequeue
    /\ backend.opencodeSessionId # Null
    /\ messageQueue' = QueueRest(messageQueue)
    /\ SetOrch(emit(TurnStart, StatusMsg("running", Empty), backend.messageHandlers))
    /\ backend' = [backend EXCEPT !.isRunning = TRUE]
    /\ stream' = [stream EXCEPT !.request = "pending"]
    /\ invoked' = Invocation(item, backend)
    /\ invokedIds' = invokedIds \cup {item.id}
    /\ inFlight' = inFlight + 1
    /\ turn' = "open"
    /\ cancelled' = FALSE
    /\ pc' = "invoking"
    /\ UNCHANGED <<probe, api, reader, fanout, kind, currentPermissionMode, currentModel, shouldExit, proc,
                   discarded, nextId, nAborts>>

\* the fetch of OpencodeClient.sendPrompt settled: an OK response with its
\* parts, or a failure; then the rest of OpencodeBackend.sendPrompt and of the
\* loop pass
HttpResponse(ok, parts) ==
    LET h == backend.messageHandlers
        b1 == [backend EXCEPT !.isRunning = FALSE]
        o1 == IF ok
              THEN emit(emitAll(Orch, processMessageResponse(parts), h),
                        StatusMsg("idle", Empty), h)
              ELSE emit(Orch, StatusMsg("error", <<"Failed to send prompt">>), h)
    IN
    /\ kind = "opencode"
    /\ pc = "invoking"
    /\ stream.request = "pending"
    /\ ~ok => parts = <<>>
    /\ stream' = [stream EXCEPT !.request = "none"]
    /\ inFlight' = inFlight - 1
    /\ invoked' = IF ok THEN invoked ELSE MarkFailed(invoked)
    /\ FinishIteration(o1, b1)
    /\ UNCHANGED <<probe, api, reader, fanout, kind, currentPermissionMode, currentModel, shouldExit, proc,
                   invokedIds, discarded, cancelled, nextId, nAborts>>

\* ------------------------------------ the backends called directly
\* cancel() and dispose() as a consumer of the AgentBackend interface may
\* call them: at any time, and more than once.
cancelKeepsHandle(b) == [b EXCEPT !.isRunning = FALSE]

\* DroidBackend.cancel over DroidClient.cancel, on the backend's fields: with a
\* live child the handle is cleared and isRunning reset, without one nothing
cancel(b) ==
    IF b.currentProcess THEN [b EXCEPT !.currentProcess = FALSE, !.isRunning = FALSE]
    ELSE b

\* OpencodeBackend.cancel on the backend's fields
cancelOpencode(b) == [b EXCEPT !.isRunning = FALSE]

disconnectKeepsServer(st) == [st EXCEPT !.abortController = FALSE, !.reading = FALSE]

\* OpencodeClient.unsubscribeFromEvents and disconnect
disconnect(st) ==
    [st EXCEPT !.abortController = FALSE, !.reading = FALSE, !.serverProcess = FALSE]

\* a plain prompt, no meta
ApiPrompt == <<Absent, Absent, <<"p">>>>

\* backend.cancel(sessionId)
Cancel ==
    LET live == backend.currentProcess
        emits == IF kind = "droid" THEN live ELSE TRUE
    IN
    /\ pc \in {"wait", "invoking"}
    /\ api.cancels < MaxCalls
    /\ api' = [api EXCEPT !.cancels = @ + 1, !.lastCancel = (kind = "droid" /\ live)]
    /\ backend' = IF kind = "droid" THEN cancel(backend) ELSE cancelOpencode(backend)
    /\ proc' = IF kind = "droid" THEN clientCancel(proc) ELSE proc
    /\ cancelled' = (cancelled \/ (kind = "droid" /\ live))
    /\ SetOrch(IF emits
               THEN emit(Orch, StatusMsg("stopped", Empty), backend.messageHandlers)
               ELSE Orch)
    /\ UNCHANGED <<probe, reader, fanout, stream, kind, pc, messageQueue, currentPermissionMode,
                   currentModel, shouldExit, turn, inFlight, invoked, invokedIds,
                   discarded, nextId, nAborts>>

\* backend.dispose()
Dispose ==
    /\ pc \in {"wait", "invoking"}
    /\ api.disposes < MaxCalls
    /\ api' = [api EXCEPT !.disposes = @ + 1, !.lastInit = Null, !.disposedSince = TRUE]
    /\ backend' = dispose(backend)
    /\ proc' = IF kind = "droid" THEN clientCancel(proc) ELSE proc
    /\ stream' = IF kind = "opencode" THEN disconnect(stream) ELSE stream
    /\ cancelled' = (cancelled \/ (kind = "droid" /\ backend.currentProcess))
    /\ UNCHANGED <<probe, reader, fanout, kind, pc, messageQueue, currentPermissionMode,
                   currentModel, thinking, shouldExit, isResponseInProgress,
                   accumulatedResponse, sent, emitted, turn, inFlight, invoked,
                   invokedIds, discarded, turnAborted, nextId, nAborts>>

\* --------------------------------------------- emit and its handlers
\* DroidBackend.emit / OpencodeBackend.emit with any number of registered
\* handlers, some of which throw on every message they are called with.
\* A handler keeps the types of the messages it was called with, and `since`,
\* the number of messages emitted before it was registered.
Handler(throws, since) == [throws |-> throws, since |-> since, received |-> <<>>]

calledUntilThrow(hs) ==
    IF \E i \in DOMAIN hs : hs[i].throws
    THEN 1..(CHOOSE i \in DOMAIN hs :
                /\ hs[i].throws
                /\ \A j \in 1..(i - 1) : ~hs[j].throws)
    ELSE DOMAIN hs

\* `for (const handler of this.messageHandlers) { try { handler(message) }
\* catch { log } }`: the handlers one emit calls, a throwing one included
calledHandlers(hs) == DOMAIN hs

\* emit(message): handlers are called in the order of the array
emitToHandlers(f, msg) ==
    LET called == calledHandlers(f.handlers) IN
    [f EXCEPT !.log = Append(@, msg.type),
              !.lastCalled = [i \in 1..Cardinality(called) |-> i],
              !.handlers = [i \in DOMAIN @ |->
                              IF i \in called
                              THEN [@[i] EXCEPT !.received = Append(@, msg.type)]
                              ELSE @[i]]]

RECURSIVE emitAllToHandlers(_, _)
emitAllToHandlers(f, msgs) ==
    IF msgs = <<>> THEN f
    ELSE emitAllToHandlers(emitToHandlers(f, Head(msgs)), Tail(msgs))

\* backend.onMessage(handler)
OnMessage(throws) ==
    /\ Len(fanout.handlers) < MaxHandlers
    /\ fanout' = [fanout EXCEPT !.handlers = Append(@, Handler(throws, Len(fanout.log)))]
    /\ UNCHANGED <<probe, api, reader, stream, kind, pc, messageQueue, currentPermissionMode,
                   currentModel, thinking, shouldExit, isResponseInProgress,
                   accumulatedResponse, backend, proc, sent, emitted, turn, inFlight,
                   invoked, invokedIds, discarded, cancelled, turnAborted, nextId,
                   nAborts>>

\* one backend event translated to the messages `msgs`, each emitted in turn
Fanout(msgs) ==
    /\ fanout.events < MaxFanoutEvents
    /\ fanout' = [emitAllToHandlers(fanout, msgs) EXCEPT !.events = @ + 1]
    /\ UNCHANGED <<probe, api, reader, stream, kind, pc, messageQueue, currentPermissionMode,
                   currentModel, thinking, shouldExit, isResponseInProgress,
                   accumulatedResponse, backend, proc, sent, emitted, turn, inFlight,
                   invoked, invokedIds, discarded, cancelled, turnAborted, nextId,
                   nAborts>>

\* DroidBackend.handleStreamEvent called with one record
FanoutStreamEvent(event) == kind = "droid" /\ Fanout(handleStreamEvent(event))

\* OpencodeBackend.handleEvent called with one server event
FanoutEvent(event) == kind = "opencode" /\ Fanout(handleEvent(event))

\* ------------------------------------- execStream read byte by byte
\* The child's stdout is a sequence of bytes which the pipe hands to the
\* 'data' listener in chunks of any size.  A record is one line: an opening
\* brace, a tag for its type, the bytes of its text, a closing brace.
NL == "LF"
\* the two bytes of one character outside ASCII (U+00E9), the character
\* itself, and the replacement character a decoder puts for a byte sequence
\* that is not a complete character
ByteC3 == "0xC3"
ByteA9 == "0xA9"
CharE9 == "U+00E9"
Replacement == "U+FFFD"

\* Buffer.prototype.toString(): UTF-8 decoding of one chunk on its own
RECURSIVE toString(_)
toString(bytes) ==
    IF bytes = <<>> THEN <<>>
    ELSE IF Head(bytes) = ByteC3
         THEN IF Len(bytes) >= 2 /\ bytes[2] = ByteA9
              THEN <<CharE9>> \o toString(SubSeq(bytes, 3, Len(bytes)))
              ELSE <<Replacement>> \o toString(Tail(bytes))
    ELSE IF Head(bytes) = ByteA9 THEN <<Replacement>> \o toString(Tail(bytes))
    ELSE <<Head(bytes)>> \o toString(Tail(bytes))

\* String.prototype.split('\n'): the pieces between newlines, the last one
\* being what follows the last newline
RECURSIVE split(_, _)
split(chars, piece) ==
    IF chars = <<>> THEN <<piece>>
    ELSE IF Head(chars) = NL THEN <<piece>> \o split(Tail(chars), <<>>)
    ELSE split(Tail(chars), Append(piece, Head(chars)))

RecordTags == {"S", "A", "T", "R", "W", "C"}

\* the line is the JSON text of one record
IsJSON(line) ==
    /\ Len(line) >= 3
    /\ line[1] = "{"
    /\ line[Len(line)] = "}"
    /\ line[2] \in RecordTags
    /\ \A i \in 3..(Len(line) - 1) : line[i] \notin {"{", "}"}

\* JSON.parse(line) as DroidStreamEvent, for a line that is JSON
JSONparse(line) ==
    LET text == SubSeq(line, 3, Len(line) - 1) IN
    CASE line[2] = "S" -> StreamEvent("system", "", Empty, "", "s1")
      [] line[2] = "A" -> StreamEvent("message", "assistant", text, "", "s1")
      [] line[2] = "T" -> StreamEvent("tool_call", "", Empty, "Execute", "s1")
      [] line[2] = "R" -> StreamEvent("tool_result", "", Empty, "Execute", "s1")
      [] line[2] = "W" -> StreamEvent("tool_result", "", Empty, "Write", "s1")
      [] OTHER -> StreamEvent("completion", "", text, "", "s1")

\* `if (!line.trim()) continue; try { onEvent(JSON.parse(line)) } catch { log }`:
\* the events one line gives, none for a blank line or a line that is not JSON
parseLine(line) ==
    IF TrimNonEmpty(line) /\ IsJSON(line) THEN <<JSONparse(line)>> ELSE <<>>

loopStopsAtBadLine(line) == ~TrimNonEmpty(line) \/ IsJSON(line)

\* the try/catch is inside the body of the loop over the lines: whatever the
\* line was, the loop goes on with the next one
loopContinuesAfter(line) == TRUE

\* `for (const line of lines)` over the complete lines of one chunk
RECURSIVE parseLines(_)
parseLines(lines) ==
    IF lines = <<>> THEN <<>>
    ELSE parseLine(Head(lines))
         \o (IF loopContinuesAfter(Head(lines)) THEN parseLines(Tail(lines)) ELSE <<>>)

RECURSIVE translateAll(_)
translateAll(events) ==
    IF events = <<>> THEN <<>>
    ELSE handleStreamEvent(Head(events)) \o translateAll(Tail(events))

\* onEvent called with each of `events`: DroidBackend.handleStreamEvent, emit,
\* and the handler runDroid registered
onEvents(r, events) ==
    LET msgs == translateAll(events) IN
    [r EXCEPT !.events = @ \o events,
              !.msgs = @ \o msgs,
              !.orch = emitAll(@, msgs, TRUE)]

\* the lines a droid process may print, without their newline
LineOf(tag, text) == <<"{", tag>> \o text \o <<"}">>
ReaderLines ==
    {LineOf("S", Empty), LineOf("A", <<"x">>), LineOf("A", <<ByteC3, ByteA9>>),
     LineOf("T", Empty), LineOf("R", Empty), LineOf("W", Empty),
     LineOf("C", Empty), LineOf("C", <<"x">>),
     <<"x">>,     \* not JSON
     <<>>}        \* blank
\* what may follow the last newline: nothing, a whole record, a cut record
TailLines == {<<>>, LineOf("A", <<"x">>), <<"{", "A", "x">>}

RECURSIVE joinLines(_)
joinLines(lines) ==
    IF lines = <<>> THEN <<>>
    ELSE Head(lines) \o <<NL>> \o joinLines(Tail(lines))

\* length of the longest transcript
MaxOutput == 6 * MaxLines + 4

Transcripts ==
    {joinLines(ls) \o t : ls \in UNION {[1..k -> ReaderLines] : k \in 0..MaxLines},
                           t \in TailLines}

\* the orchestrator's handler state at the start of a turn
BlankOrch ==
    [thinking |-> FALSE, isResponseInProgress |-> FALSE, accumulatedResponse |-> Empty,
     sent |-> <<>>, emitted |-> <<>>, turnAborted |-> 0]

\* DroidBackend.sendPrompt up to the spawn in execStream; the child will
\* print `output`
ExecStream(output) ==
    /\ kind = "droid"
    /\ reader.state = "none"
    /\ reader' = [state |-> "running", output |-> output, rest |-> output,
                  buffer |-> <<>>, events |-> <<>>,
                  msgs |-> <<StatusMsg("running", Empty)>>,
                  orch |-> emit(BlankOrch, StatusMsg("running", Empty), TRUE),
                  code |-> "none", stderr |-> Empty]
    /\ UNCHANGED <<probe, api, fanout, stream, kind, pc, messageQueue, currentPermissionMode,
                   currentModel, thinking, shouldExit, isResponseInProgress,
                   accumulatedResponse, backend, proc, sent, emitted, turn, inFlight,
                   invoked, invokedIds, discarded, cancelled, turnAborted, nextId,
                   nAborts>>

\* stdout 'data' listener called with the next n bytes of the output
StdoutData(n) ==
    LET chunk == SubSeq(reader.rest, 1, n)
        lines == split(reader.buffer \o toString(chunk), <<>>)
        complete == SubSeq(lines, 1, Len(lines) - 1)
        r1 == [reader EXCEPT !.rest = SubSeq(@, n + 1, Len(@)),
                             !.buffer = lines[Len(lines)]]
    IN
    /\ reader.state = "running"
    /\ n \in 1..Len(reader.rest)
    /\ reader' = onEvents(r1, parseLines(complete))
    /\ UNCHANGED <<probe, api, fanout, stream, kind, pc, messageQueue, currentPermissionMode,
                   currentModel, thinking, shouldExit, isResponseInProgress,
                   accumulatedResponse, backend, proc, sent, emitted, turn, inFlight,
                   invoked, invokedIds, discarded, cancelled, turnAborted, nextId,
                   nAborts>>

\* 'close' listener, after stdout has ended, then the rest of
\* DroidBackend.sendPrompt: the remaining buffer is parsed once, the exit code
\* decides between idle and error
StreamClose(code, stderr) ==
    LET r1 == onEvents(reader, parseLine(reader.buffer))
        last == IF code = "0" THEN StatusMsg("idle", Empty)
                ELSE StatusMsg("error", ExitDetail(code, stderr))
    IN
    /\ reader.state = "running"
    /\ reader.rest = <<>>
    /\ code = "0" => stderr = Empty
    /\ reader' = [r1 EXCEPT !.state = "closed", !.buffer = <<>>,
                            !.msgs = Append(@, last),
                            !.orch = emit(@, last, TRUE),
                            !.code = code, !.stderr = stderr]
    /\ UNCHANGED <<probe, api, fanout, stream, kind, pc, messageQueue, currentPermissionMode,
                   currentModel, thinking, shouldExit, isResponseInProgress,
                   accumulatedResponse, backend, proc, sent, emitted, turn, inFlight,
                   invoked, invokedIds, discarded, cancelled, turnAborted, nextId,
                   nAborts>>

\* ------------------------------- availability probe and version query
\* DroidClient.isAvailable and DroidClient.getVersion each spawn
\* `droid --version` and return a promise.  A promise keeps the first value
\* it is resolved with.
MaxVersionChunks == 2      \* stdout chunks of one `droid --version` child
VersionChunks == {<<"v">>, <<" ">>}

\* String.prototype.trim() of a text
RECURSIVE trimStart(_)
trimStart(s) == IF s # <<>> /\ Head(s) = " " THEN trimStart(Tail(s)) ELSE s
RECURSIVE trimEnd(_)
trimEnd(s) == IF s # <<>> /\ s[Len(s)] = " " THEN trimEnd(SubSeq(s, 1, Len(s) - 1)) ELSE s
trim(s) == trimEnd(trimStart(s))

resolve(p, v) == IF p.settled THEN p ELSE [p EXCEPT !.settled = TRUE, !.value = v]
resolveNull(p) == IF p.settled THEN p ELSE [p EXCEPT !.settled = TRUE, !.isNull = TRUE]

UnchangedByProbe ==
    UNCHANGED <<api, reader, fanout, stream, kind, pc, messageQueue, currentPermissionMode,
                currentModel, thinking, shouldExit, isResponseInProgress,
                accumulatedResponse, backend, proc, sent, emitted, turn, inFlight,
                invoked, invokedIds, discarded, cancelled, turnAborted, nextId, nAborts>>

\* DroidClient.isAvailable(): spawn, listeners, setTimeout(..., 5000)
IsAvailable ==
    /\ kind = "droid"
    /\ ~probe.isAvailable.called
    /\ probe' = [probe EXCEPT !.isAvailable =
                    [@ EXCEPT !.called = TRUE, !.child = "running", !.timer = TRUE]]
    /\ UnchangedByProbe

\* 'close' of the child of isAvailable: resolve(code === 0)
AvailableClose(code) ==
    /\ probe.isAvailable.child \in {"running", "killed"}
    /\ code = "0" => probe.isAvailable.child = "running"
    /\ probe' = [probe EXCEPT !.isAvailable =
                    [resolve(@, code = "0") EXCEPT !.child = "exited"]]
    /\ UnchangedByProbe

\* 'error' of the child of isAvailable (spawn failed): resolve(false)
AvailableError ==
    /\ probe.isAvailable.child = "running"
    /\ probe' = [probe EXCEPT !.isAvailable = [resolve(@, FALSE) EXCEPT !.child = "failed"]]
    /\ UnchangedByProbe

\* the timer of isAvailable fires: droid.kill(); resolve(false).  The timer is
\* never cleared, so it fires after the child has gone as well.
AvailableTimeout ==
    /\ probe.isAvailable.timer
    /\ probe' = [probe EXCEPT !.isAvailable =
                    [resolve(@, FALSE) EXCEPT
                        !.timer = FALSE,
                        !.child = IF @ = "running" THEN "killed" ELSE @]]
    /\ UnchangedByProbe

\* DroidClient.getVersion(): spawn and listeners, no timer
GetVersion ==
    /\ kind = "droid"
    /\ ~probe.getVersion.called
    /\ probe' = [probe EXCEPT !.getVersion = [@ EXCEPT !.called = TRUE, !.child = "running"]]
    /\ UnchangedByProbe

\* stdout 'data' of the child of getVersion: stdout += data.toString()
VersionStdout(chunk) ==
    /\ probe.getVersion.child = "running"
    /\ Len(probe.getVersion.stdout) < MaxVersionChunks
    /\ probe' = [probe EXCEPT !.getVersion.stdout = @ \o chunk]
    /\ UnchangedByProbe

\* 'close' of the child of getVersion: resolve(code === 0 ? stdout.trim() : null)
VersionClose(code) ==
    /\ probe.getVersion.child = "running"
    /\ probe' = [probe EXCEPT !.getVersion =
                    [(IF code = "0"
                      THEN resolve(@, trim(@.stdout))
                      ELSE resolveNull(@))
                     EXCEPT !.child = "exited"]]
    /\ UnchangedByProbe

\* 'error' of the child of getVersion (spawn failed): resolve(null)
VersionError ==
    /\ probe.getVersion.child = "running"
    /\ probe.getVersion.stdout = Empty
    /\ probe' = [probe EXCEPT !.getVersion = [resolveNull(@) EXCEPT !.child = "failed"]]
    /\ UnchangedByProbe

Next ==
    \/ \E m \in MessageInputs : UserMessage(m[1], m[2], m[3])
    \/ HandleAbort
    \/ OnExit
    \/ KillSession
    \/ BackendConstructed
    \/ WaitReturnsNull
    \/ DispatchDroid
    \/ DispatchOpencode
    \/ \E e \in StreamEvents : ProcStdout(e)
    \/ \E c \in ExitCodes, se \in StderrTexts, t \in Tails : ProcClose(c, se, t)
    \/ ProcError

Spec == Init /\ [][Next]_vars

\* What the runtime guarantees to happen: startHappyServer resolves, a wait on
\* a non-empty queue returns its item, and a spawned child closes (or fails to
\* spawn).  Nothing guarantees a user message, an abort or a kill request.
\* The loop calls waitForMessagesAndGetAsString() without a cancellation
\* signal and neither onExit nor handleAbort wakes it, so nothing guarantees
\* that the wait on an empty queue ever returns.
LoopFairness ==
    /\ WF_vars(BackendConstructed)
    /\ WF_vars(DispatchDroid)
    /\ WF_vars(DispatchOpencode)
    /\ WF_vars(\E c \in ExitCodes, se \in StderrTexts, t \in Tails : ProcClose(c, se, t))

SpecFair == Spec /\ LoopFairness

\* The server-stream orchestrator with a backend whose session gets started.
StreamNext ==
    \/ \E m \in MessageInputs : UserMessage(m[1], m[2], m[3])
    \/ BackendConstructed
    \/ StartSessionConnect
    \/ StartSessionCreated
    \/ \E e \in OpencodeEvents : SseEvent(e)
    \/ \E failed \in BOOLEAN : SubscriptionEnd(failed)
    \/ DispatchOpencode
    \/ DispatchStream
    \/ \E ok \in BOOLEAN, parts \in PartLists : HttpResponse(ok, parts)

StreamInit == Init /\ kind = "opencode"

SpecStream == StreamInit /\ [][StreamNext]_vars

\* The records of StreamEvents, and the session-init record of another session.
ApiStreamEvents == StreamEvents \cup {StreamEvent("system", "", Empty, "", "s2")}
ApiTails == {<<>>} \cup {<<e>> : e \in ApiStreamEvents}

\* A consumer that drives a backend through its public interface.
ApiNext ==
    \/ UserMessage(ApiPrompt[1], ApiPrompt[2], ApiPrompt[3])
    \/ BackendConstructed
    \/ DispatchDroid
    \/ \E e \in ApiStreamEvents : ProcStdout(e)
    \/ \E c \in ExitCodes, se \in StderrTexts, t \in ApiTails : ProcClose(c, se, t)
    \/ StartSessionConnect
    \/ StartSessionCreated
    \/ Cancel
    \/ Dispose

SpecApi == Init /\ [][ApiNext]_vars

\* A backend with several registered handlers, fed with events.
FanoutNext ==
    \/ \E throws \in BOOLEAN : OnMessage(throws)
    \/ \E e \in StreamEvents : FanoutStreamEvent(e)
    \/ \E e \in OpencodeEvents : FanoutEvent(e)

SpecFanout == Init /\ [][FanoutNext]_vars

\* The start-up probes of the process-exec backend.  A timer that has been set
\* fires; nothing makes a child process exit or fail.
ProbeNext ==
    \/ IsAvailable
    \/ \E code \in {"0", "1", Null} : AvailableClose(code)
    \/ AvailableError
    \/ AvailableTimeout
    \/ GetVersion
    \/ \E chunk \in VersionChunks : VersionStdout(chunk)
    \/ \E code \in {"0", "1"} : VersionClose(code)
    \/ VersionError

ProbeFairness == WF_vars(AvailableTimeout)

SpecProbe == Init /\ [][ProbeNext]_vars /\ ProbeFairness

\* One execStream call of the process-exec backend, its stdout read in chunks.
ReaderNext ==
    \/ \E output \in Transcripts : ExecStream(output)
    \/ \E n \in 1..MaxOutput : StdoutData(n)
    \/ \E code \in {"0", "1"}, stderr \in StderrTexts : StreamClose(code, stderr)

SpecReader == Init /\ [][ReaderNext]_vars

\* ======================================================== properties

LastSent == sent[Len(sent)]
\* this step hands a ready announcement to the transport
ReadySent == sent' # sent /\ sent' # <<>> /\ sent'[Len(sent')].type = "ready"
Terminal == {"idle", "error", "stopped"}

\* C1: at most one backend invocation (a sendPrompt call that has not settled)
\* is in flight at any time, in both orchestrators.
C1_SingleInvocation == inFlight <= 1

C1_Witness == inFlight = 1 /\ QueueSize(messageQueue) > 0

\* C2: every prompt is invoked with the permission mode and model attached to
\* its own queue item; a later message's mode or model does not change them.
C2_ModeOfOwnItem ==
    invokedIds # {} /\ pc # "exited" =>
        /\ invoked.backendMode = invoked.permissionMode
        /\ kind = "droid" => invoked.auto = permissionModeToAutoLevel(invoked.permissionMode)
        /\ invoked.execModel =
              (IF invoked.model = Undef THEN DefaultModel(kind) ELSE invoked.model)

\* C3: every turn of the process-exec orchestrator ends with the transport
\* having received a message with the assistant's content or an error message.
C3_TurnEndsWithMessage ==
    kind = "droid" /\ turn = "closed" => \E i \in DOMAIN sent : sent[i].type = "message"

\* C4: a prompt that was pending in the queue when an abort was requested is
\* never passed to sendPrompt.
C4_NoStalePrompt == invokedIds \cap discarded = {}

C4_Witness == \E i \in invokedIds, d \in discarded : i > d

\* C5: exactly one turn_aborted is sent per abort request: the request's step
\* sends one, and no other step sends one for an invocation the user cancelled.
C5_OneAckPerAbort ==
    [][/\ nAborts' = nAborts + 1 => turnAborted' = turnAborted + 1
       /\ nAborts' = nAborts /\ cancelled => turnAborted' = turnAborted]_vars

\* C6: once cancellation has been requested for the invocation in flight, its
\* later stdout records change neither the accumulated response nor the
\* response-in-progress and thinking flags, and send nothing to the transport.
C6_LateEventsDiscarded ==
    [][proc.state = "killed" /\ proc'.state = "killed" /\ nAborts' = nAborts =>
          UNCHANGED <<accumulatedResponse, isResponseInProgress, thinking, sent>>]_vars

\* C7: an invocation the user cancelled ends with no Status error from the
\* backend and no error message to the transport.
C7_CancelledIsNotError ==
    cancelled =>
        /\ \A i \in DOMAIN emitted : emitted[i] # "error"
        /\ \A i \in DOMAIN sent : ~(sent[i].type = "message" /\ sent[i].error)

\* C8: a process-exec invocation that has settled has emitted its initial
\* running status first and exactly one terminal status, as its last message.
C8_OneTerminalStatus ==
    kind = "droid" /\ turn = "closed" /\ backend.messageHandlers =>
        /\ Len(emitted) >= 2
        /\ emitted[1] = "running"
        /\ emitted[Len(emitted)] \in Terminal
        /\ \A i \in 1..(Len(emitted) - 1) : emitted[i] \notin Terminal

\* C9: a ready announcement is sent only when shutdown has not been requested,
\* thinking is false, no response is in progress and the queue is empty.
C9_ReadyOnlyWhenIdle ==
    [][ReadySent =>
          /\ ~shouldExit'
          /\ ~thinking'
          /\ ~isResponseInProgress'
          /\ QueueSize(messageQueue') = 0]_vars

C9_Witness == turn = "closed" /\ sent # <<>> /\ LastSent.type = "ready"

\* C10: a prompt pushed while an invocation was in flight is not preceded by a
\* ready announcement sent between that invocation's end and its own start.
C10_NoReadyBeforeQueuedPrompt == ~invoked.readyGap

C10_Witness == invoked.during /\ invoked.aEnded /\ turn = "open"

\* C11: when no abort has been requested, every user message the transport
\* has delivered is a queue item of its own or has had its own invocation.
C11_EveryMessageQueued ==
    nAborts = 0 =>
        \A id \in 1..(nextId - 1) :
            \/ id \in invokedIds
            \/ \E k \in DOMAIN messageQueue : messageQueue[k].id = id

\* C12: prompts are dispatched in the order they were pushed: the prompt a
\* step passes to sendPrompt was pushed after every prompt dispatched before
\* it and before every prompt still pending; and no item discarded by a reset
\* is pending again, so after reset and push(x) only x is pending.
C12_FifoDispatch ==
    [][/\ \A i \in invokedIds' \ invokedIds :
             /\ \A j \in invokedIds : j < i
             /\ \A k \in DOMAIN messageQueue' : i < messageQueue'[k].id
       /\ \A k \in DOMAIN messageQueue' : messageQueue'[k].id \notin discarded']_vars

C12_Witness ==
    /\ invokedIds = {1, 2}
    /\ invoked.during
    /\ discarded = {}

C14_NoPartialMessageOnError ==
    (\E i \in DOMAIN emitted : emitted[i] = "error") =>
        \A j \in DOMAIN sent : ~(sent[j].type = "message" /\ ~sent[j].error)

\* C15: a sendPrompt call that ended in a failure has delivered a Status
\* error to the registered handler.
C15_FailureBecomesStatusError ==
    turn = "closed" /\ invoked.failed /\ backend.messageHandlers =>
        \E i \in DOMAIN emitted : emitted[i] = "error"

C17_NoItemWithoutPrompt ==
    /\ \A k \in DOMAIN messageQueue : messageQueue[k].text # Empty
    /\ invokedIds # {} => invoked.prompt # Empty

\* C18: a prompt queued with no model override in force (the override was
\* cleared by model = null, or never set), and followed by no later message,
\* is invoked with the model the backend was constructed with.
C18_NullClearsModel ==
    /\ kind = "droid"
    /\ invokedIds # {}
    /\ invoked.model = Undef
    /\ invoked.id = nextId - 1
    => invoked.execModel = backend.initialModel

\* C19: once the shutdown flag is set the main function eventually leaves the
\* dispatch loop and reaches its cleanup (or the process has exited).
C19_ShutdownReachesCleanup == shouldExit ~> pc \in {"done", "exited"}

C21_DroidCancelIdempotent ==
    [][api'.cancels = api.cancels + 1 /\ kind = "droid" =>
          /\ ~backend'.currentProcess
          /\ IF backend.currentProcess
             THEN /\ api'.lastCancel
                  /\ proc.state = "running" /\ proc'.state = "killed"
                  /\ backend.messageHandlers =>
                        /\ Len(emitted') = Len(emitted) + 1
                        /\ emitted'[Len(emitted')] = "stopped"
             ELSE /\ ~api'.lastCancel
                  /\ UNCHANGED <<backend, proc, emitted, sent, thinking,
                                 isResponseInProgress, accumulatedResponse>>]_vars

\* cancel() was called twice in a row on a live invocation: the first call
\* killed the child, the second found nothing to cancel
C21_Witness ==
    /\ kind = "droid"
    /\ api.cancels = 2
    /\ ~api.lastCancel
    /\ proc.state = "killed"
    /\ Len(SelectSeq(emitted, LAMBDA k : k = "stopped")) = 1


\* C22: server-stream backend: a cancel() made while no invocation is in
\* flight delivers no status event to the registered handler and leaves the
\* backend's fields as they were.
C22_OpencodeIdleCancelNoOp ==
    [][(/\ kind = "opencode"
        /\ backend.constructed
        /\ inFlight = 0
        /\ nAborts' = nAborts + 1
        /\ pc' # "exited")
       => emitted' = emitted /\ backend' = backend]_vars


\* the subprocess, the event subscription, the server process and the
\* handler list of backend `b` are released
Released(b, p, st) ==
    /\ ~b.currentProcess
    /\ p.state # "running"
    /\ ~b.eventSubscriptionActive
    /\ ~st.abortController
    /\ ~st.serverProcess
    /\ ~b.messageHandlers

\* C23: dispose() on either backend leaves every held resource released (the
\* live subprocess signalled; the event subscription aborted and the server
\* process killed), and a dispose() of a backend that is already disposed
\* changes nothing.
C23_DisposeIdempotent ==
    [][api'.disposes = api.disposes + 1 =>
          /\ Released(backend', proc', stream')
          /\ (/\ Released(backend, proc, stream)
              /\ backend.droidSessionId = Null
              /\ backend.opencodeSessionId = Null
              /\ ~backend.isRunning)
             => UNCHANGED <<backend, proc, stream, emitted, sent>>]_vars

\* a started server-stream backend was disposed twice
C23_Witness ==
    /\ kind = "opencode"
    /\ stream.startSession = "done"
    /\ api.disposes = 2
    /\ Released(backend, proc, stream)


\* C24: once an invocation has ended with its response and until the next one
\* starts, no content or tool event is delivered to the orchestrator's handler.
C24_ContentOnlyInFlight ==
    [][(/\ turn = "closed" /\ turn' = "closed"
        /\ inFlight = 0 /\ inFlight' = 0
        /\ invokedIds' = invokedIds
        /\ ~invoked.failed
        /\ backend.messageHandlers)
       => \A i \in (Len(emitted) + 1)..Len(emitted') : emitted'[i] # "content"]_vars


\* C25: whichever registered handlers throw, every handler has been called
\* with every message emitted since its registration, in emission order, and
\* each emit calls the handlers in registration order.
C25_ThrowingHandlerIsolated ==
    LET hs == fanout.handlers IN
    /\ \A i \in DOMAIN hs :
          hs[i].received = SubSeq(fanout.log, hs[i].since + 1, Len(fanout.log))
    /\ \A i \in DOMAIN fanout.lastCalled : fanout.lastCalled[i] = i
    /\ \A i \in DOMAIN hs :
          hs[i].since < Len(fanout.log) => i \in DOMAIN fanout.lastCalled

\* the first of three handlers throws; two messages of one event have been
\* emitted and the handlers after it have both
C25_Witness ==
    /\ Len(fanout.handlers) = 3
    /\ fanout.handlers[1].throws
    /\ ~fanout.handlers[3].throws
    /\ fanout.events = 1
    /\ Len(fanout.handlers[3].received) = 2


\* the events execStream passes to onEvent when the whole output arrives as
\* one chunk
readWhole(output) ==
    LET lines == split(toString(output), <<>>) IN
    parseLines(SubSeq(lines, 1, Len(lines) - 1)) \o parseLine(lines[Len(lines)])

\* C26: however stdout was split into chunks, the events passed to onEvent by
\* the time the process has closed are those of the same output read as one
\* chunk.
C26_ChunkingIndependent ==
    reader.state = "closed" => reader.events = readWhole(reader.output)


\* the records of an output: its lines, the unterminated last one included,
\* that are JSON, in their order
RECURSIVE recordsOf(_)
recordsOf(lines) ==
    IF lines = <<>> THEN <<>>
    ELSE (IF IsJSON(toString(Head(lines))) THEN <<JSONparse(toString(Head(lines)))>>
          ELSE <<>>)
         \o recordsOf(Tail(lines))
validRecords(output) == recordsOf(split(output, <<>>))

\* a record without its text
Shape(e) == [e EXCEPT !.text = Empty]
Shapes(events) == [i \in DOMAIN events |-> Shape(events[i])]
IsAscii(bytes) == \A i \in DOMAIN bytes : bytes[i] \notin {ByteC3, ByteA9}
IsStatus(msg, st) == msg.type = "status" /\ msg.status = st

\* C27: lines that are not JSON are skipped and nothing else is: when the
\* process has closed, the events passed to onEvent are the valid records of
\* the output in their order (exactly so for ASCII output, record by record
\* up to the text otherwise), all of them were translated and emitted, and
\* the terminal status follows the exit code alone.
C27_MalformedLineSkipped ==
    reader.state = "closed" =>
        /\ Shapes(reader.events) = Shapes(validRecords(reader.output))
        /\ IsAscii(reader.output) => reader.events = validRecords(reader.output)
        /\ reader.msgs = <<StatusMsg("running", Empty)>>
                          \o translateAll(reader.events)
                          \o <<reader.msgs[Len(reader.msgs)]>>
        /\ IsStatus(reader.msgs[Len(reader.msgs)],
                    IF reader.code = "0" THEN "idle" ELSE "error")

\* a line that is not JSON stood between two records, both were passed on
\* and the process ended with exit code 0
C27_Witness ==
    /\ reader.state = "closed"
    /\ reader.output = joinLines(<<LineOf("C", <<"x">>), <<"x">>>>) \o LineOf("A", <<"x">>)
    /\ Len(reader.events) = 2
    /\ reader.code = "0"


\* `tail` is the end of `text`
EndsWith(text, tail) ==
    /\ Len(tail) <= Len(text)
    /\ SubSeq(text, Len(text) - Len(tail) + 1, Len(text)) = tail

\* C28: a process-exec invocation whose child exited with a non-zero code
\* ends with a status error whose detail ends with the captured stderr text,
\* or with the default text when stderr is empty, whatever was emitted before;
\* exit code 0 ends with status idle.  The error is the last event, and the
\* orchestrator passes its detail on to the transport.
C28_ExitCodeDecidesStatus ==
    reader.state = "closed" =>
        LET last == reader.msgs[Len(reader.msgs)]
            expected == IF reader.stderr # Empty THEN reader.stderr
                        ELSE <<"Unknown error">>
        IN IF reader.code = "0"
           THEN IsStatus(last, "idle")
           ELSE /\ IsStatus(last, "error")
                /\ EndsWith(last.detail, expected)
                /\ \E i \in DOMAIN reader.orch.sent :
                      /\ reader.orch.sent[i].type = "message"
                      /\ reader.orch.sent[i].error
                      /\ EndsWith(reader.orch.sent[i].text, expected)

\* the child printed an assistant record and a tool result, wrote to stderr
\* and exited with a failure code
C28_Witness ==
    /\ reader.state = "closed"
    /\ reader.code = "1"
    /\ reader.stderr = <<"boom">>
    /\ Len(reader.events) = 2
    /\ Len(reader.msgs) > 4


\* The canonical events of one record, as the mapping of the translator is
\* specified: type and text of each.
Canon(t, text) == [type |-> t, text |-> text]
canonicalOf(record) ==
    CASE record.type = "message" /\ record.role = "assistant" ->
            <<Canon("model-output", record.text)>>
      [] record.type = "tool_call" -> <<Canon("tool-call", Empty)>>
      [] record.type = "tool_result" ->
            <<Canon("tool-result", Empty)>>
            \o (IF record.toolId \in {"Write", "Edit", "ApplyPatch", "MultiEdit"}
                THEN <<Canon("fs-edit", Empty)>> ELSE <<>>)
            \o (IF record.toolId = "Execute"
                THEN <<Canon("terminal-output", Empty)>> ELSE <<>>)
      [] record.type = "completion" ->
            (IF record.text # Empty THEN <<Canon("model-output", record.text)>> ELSE <<>>)
            \o <<Canon("token-count", Empty)>>
      [] OTHER -> <<>>

RECURSIVE canonicalSeq(_)
canonicalSeq(records) ==
    IF records = <<>> THEN <<>>
    ELSE canonicalOf(Head(records)) \o canonicalSeq(Tail(records))

CanonicalTypes ==
    {"model-output", "tool-call", "tool-result", "fs-edit", "terminal-output",
     "permission-request", "token-count"}

\* the content and tool events among emitted messages, type and text of each
contentOf(msgs) ==
    LET content == SelectSeq(msgs, LAMBDA m : m.type \in CanonicalTypes) IN
    [i \in DOMAIN content |->
        Canon(content[i].type,
              IF content[i].fullText # Empty THEN content[i].fullText
              ELSE content[i].textDelta)]

\* C29: for an invocation that exited with code 0 the content and tool events
\* emitted are, in record order, those of the per-record mapping applied to
\* the records read; the only status events are the running status before
\* them and the idle status after them.
C29_TranslatorMapping ==
    reader.state = "closed" /\ reader.code = "0" =>
        /\ contentOf(reader.msgs) = canonicalSeq(reader.events)
        /\ IsStatus(reader.msgs[1], "running")
        /\ IsStatus(reader.msgs[Len(reader.msgs)], "idle")
        /\ \A i \in 2..(Len(reader.msgs) - 1) : reader.msgs[i].type # "status"

\* a file-writing tool result and a completion with final text were read
C29_Witness ==
    /\ reader.state = "closed"
    /\ reader.code = "0"
    /\ reader.output = joinLines(<<LineOf("W", Empty), LineOf("C", <<"x">>)>>)
    /\ Len(reader.msgs) = 6


RECURSIVE concatTexts(_)
concatTexts(texts) ==
    IF texts = <<>> THEN <<>> ELSE Head(texts) \o concatTexts(Tail(texts))

\* the assistant texts of the records, joined in record order
assistantText(records) ==
    LET said == SelectSeq(records, LAMBDA e : e.type = "message" /\ e.role = "assistant")
    IN concatTexts([i \in DOMAIN said |-> said[i].text])

\* the text deltas of the emitted model-output events, joined in emission order
emittedText(msgs) ==
    LET outs == SelectSeq(msgs, LAMBDA m : m.type = "model-output")
    IN concatTexts([i \in DOMAIN outs |-> outs[i].textDelta])

finalMessages(out) == SelectSeq(out, LAMBDA m : m.type = "message" /\ ~m.error)

C31_ContinuationToken ==
    [][kind = "droid" /\ invokedIds' # invokedIds =>
          /\ invokedIds = {} => invoked'.sessionId = Null
          /\ api.disposedSince => invoked'.sessionId = Null
          /\ ~api.disposedSince => invoked'.sessionId = api.lastInit]_vars

\* C32: when the read loop of the event subscription ends while the backend
\* has not been disposed, the backend emits a status error to its handlers.
C32_SubscriptionEndReported ==
    [][stream.reading /\ ~stream'.reading /\ backend'.eventSubscriptionActive
       /\ backend.messageHandlers =>
          /\ emitted' # emitted
          /\ emitted'[Len(emitted')] = "error"]_vars

\* the terminal statuses in a log of emitted messages
TerminalCount(log) == Cardinality({i \in DOMAIN log : log[i] \in Terminal})

\* the stream has reported the turn in flight (text, then status idle) and the
\* response to the prompt carries parts as well
BothPathsReport ==
    /\ kind = "opencode"
    /\ turn = "open" /\ turn' = "closed"
    /\ ~invoked'.failed
    /\ emitted = <<"running", "content", "idle">>
    /\ Len(emitted') > Len(emitted) + 1

\* C33: for one server-stream invocation that is reported both by stream
\* events and by the parts of the prompt response, the handlers receive the
\* turn's terminal status once.
C33_TerminalEmittedOnce ==
    [][BothPathsReport => TerminalCount(emitted') = 1]_vars

\* C34: a call of isAvailable, and a call of getVersion, is eventually
\* resolved, also when its subprocess never exits and never reports an error.
C34_ProbesResolve ==
    /\ probe.isAvailable.called ~> probe.isAvailable.settled
    /\ probe.getVersion.called ~> probe.getVersion.settled

\* the turn has ended with status idle, nothing is queued (and no abort
\* request has emptied the queue) and no shutdown has been requested
TurnEndedIdle ==
    /\ turn = "closed"
    /\ nAborts = 0
    /\ ~invoked.failed
    /\ emitted # <<>> /\ emitted[Len(emitted)] = "idle"
    /\ QueueSize(messageQueue) = 0
    /\ ~shouldExit
    /\ pc = "wait"

\* C35: after a turn that ended with status idle, with an empty queue and no
\* shutdown requested, a ready announcement is eventually sent, whatever the
\* backend emitted during the turn.
C35_ReadyAfterIdleTurn ==
    TurnEndedIdle ~> (\E i \in DOMAIN sent : sent[i].type = "ready")

\* C36: once shouldExit is set, no prompt is passed to sendPrompt any more.
C36_NoInvocationAfterShutdown ==
    [][shouldExit => invokedIds' = invokedIds]_vars

\* C37: in the server-stream orchestrator the backend has a session id (a
\* started session) whenever the dispatch loop calls sendPrompt.
C37_SessionBeforeDispatch ==
    [][kind = "opencode" /\ invokedIds' # invokedIds =>
          /\ backend.opencodeSessionId # Null
          /\ backend.eventSubscriptionActive]_vars

\* C38: a user message that arrives before the backend object has been
\* constructed is added to the queue, whatever meta it carries.
C38_EarlyMessageQueued ==
    [][pc = "startup" /\ nextId' = nextId + 1 =>
          /\ QueueSize(messageQueue') = QueueSize(messageQueue) + 1
          /\ messageQueue'[QueueSize(messageQueue')].id = nextId]_vars

\* every task_started in `out` is followed by a task_complete or a turn_aborted
TasksClosed(out) ==
    \A j \in DOMAIN out :
        out[j].type = "task_started" =>
            \E k \in (j + 1)..Len(out) : out[k].type \in {"task_complete", "turn_aborted"}

\* C39: a task_started sent to the transport is followed by a task_complete or
\* a turn_aborted before a ready announcement and before the next turn's
\* task_started is sent.
C39_TaskStartedClosed ==
    [][/\ ReadySent => TasksClosed(SubSeq(sent', 1, Len(sent') - 1))
       /\ invokedIds' # invokedIds => TasksClosed(sent)]_vars

====
